---- MODULE Spec2Model ----
(***************************************************************************)
(* Model of the conversation orchestration controller of src/App.tsx:     *)
(* the transcript (messages), the composition buffer (input, attachments), *)
(* the agent status register, the attachment ingestion of                  *)
(* handleFileUpload and the dispatch / response assembly of handleSend.    *)
(* Strings are TLA+ strings; trim, split, match, startsWith, includes and  *)
(* Number.toString are computed character by character.                    *)
(***************************************************************************)
EXTENDS Integers, Sequences, FiniteSets, TLC

VARIABLES
    messages,        \* useState<Message[]>           App.tsx:29
    input,           \* useState("")                  App.tsx:30
    status,          \* useState<AgentStatus>         App.tsx:31
    attachments,     \* useState<Attachment[]>        App.tsx:33
    activeMode,      \* useState<"chat"|...>          App.tsx:34
    thinkingBudget,  \* useState(500)                 App.tsx:38
    now,             \* the reading of Date.now()
    urls,            \* number of object URLs handed out by URL.createObjectURL
    reading,         \* FileReader loads started by readAsDataURL, not yet loaded
    subs,            \* the invocations of handleSend that passed line 112, in call order
    returned         \* TRUE when the handler run last was handleSend returning at line 112

vars == <<messages, input, status, attachments, activeMode, thinkingBudget,
          now, urls, reading, subs, returned>>

-----------------------------------------------------------------------------
(* Bounds of the model *)

MaxSubmits == 2     \* invocations of handleSend that pass line 112
MaxFiles == 1       \* files selected through the file input
MaxTicks == 1       \* advances of the millisecond clock
ClockStart == 9     \* first reading of Date.now(); 9 -> 10 changes the digit count

(* Inputs *)

Texts == {"", " ", "Latest"}                             \* values typed in the textarea
NoFile == "<nofile>"                                     \* e.target.files is empty
DataUrls == {"data:text/csv;base64,QUJD", "data:,QUJD"}  \* results of readAsDataURL
ReplyTexts == {"ok"}                                     \* result.text of chat
SourceLists == {<<[title |-> "t", uri |-> "u"]>>}        \* result.sources of chat
MediaUrls == {"https://cdn/m1"}                          \* result.url of generateImage/Video
ErrorMessages == {"network timeout"}                     \* error.message of a rejection

-----------------------------------------------------------------------------
(* types.ts *)

AgentStatus == [IDLE |-> "idle", THINKING |-> "thinking", GENERATING |-> "generating",
                RECORDING |-> "recording", LIVE |-> "live", ERROR |-> "error"]

Modes == {"chat", "image", "video", "live"}

-----------------------------------------------------------------------------
(* String primitives of the JavaScript runtime *)

CharAt(s, i) == SubSeq(s, i, i)

startsWith(s, p) == Len(s) >= Len(p) /\ SubSeq(s, 1, Len(p)) = p

\* first position >= from at which p occurs in s, 0 when there is none
indexOfFrom(s, p, from) ==
    LET hits == {i \in from..(Len(s) - Len(p) + 1) : SubSeq(s, i, i + Len(p) - 1) = p}
    IN  IF hits = {} THEN 0 ELSE CHOOSE i \in hits : \A j \in hits : i <= j

includes(s, p) == indexOfFrom(s, p, 1) # 0

IsSpace(c) == c \in {" ", "\t", "\n", "\r"}

RECURSIVE trimStart(_)
trimStart(s) == IF Len(s) > 0 /\ IsSpace(CharAt(s, 1))
                THEN trimStart(SubSeq(s, 2, Len(s))) ELSE s

RECURSIVE trimEnd(_)
trimEnd(s) == IF Len(s) > 0 /\ IsSpace(CharAt(s, Len(s)))
              THEN trimEnd(SubSeq(s, 1, Len(s) - 1)) ELSE s

trim(s) == trimEnd(trimStart(s))

Digit(d) == CharAt("0123456789", d + 1)

RECURSIVE toString(_)
toString(n) == IF n < 10 THEN Digit(n) ELSE toString(n \div 10) \o Digit(n % 10)

-----------------------------------------------------------------------------
(* handleFileUpload: the FileReader result and its classification *)

Undefined == "<undefined>"          \* the JavaScript value undefined

\* base64.split(","): the pieces between commas, in order
RECURSIVE split(_)
split(s) ==
    LET c == indexOfFrom(s, ",", 1)
    IN  IF c = 0 THEN <<s>>
        ELSE <<SubSeq(s, 1, c - 1)>> \o split(SubSeq(s, c + 1, Len(s)))

\* header.match(/:(.*?);/)?.[1]: the text between the first ":" and the first
\* ";" after it, Undefined when the pattern does not match
matchMime(header) ==
    LET c == indexOfFrom(header, ":", 1)
        sc == IF c = 0 THEN 0 ELSE indexOfFrom(header, ";", c + 1)
    IN  IF c = 0 \/ sc = 0 THEN Undefined ELSE SubSeq(header, c + 1, sc - 1)

\* x || "image/png" for a string or undefined x
mimeOf(header) ==
    LET m == matchMime(header)
    IN  IF m = Undefined \/ m = "" THEN "image/png" ELSE m

\* the chain with the spreadsheet test moved in front of the code test
classify_CsvFirst(mimeType) ==
    IF startsWith(mimeType, "video") THEN "video"
    ELSE IF startsWith(mimeType, "audio") THEN "audio"
    ELSE IF mimeType = "application/pdf" THEN "pdf"
    ELSE IF \/ includes(mimeType, "spreadsheet")
            \/ includes(mimeType, "excel")
            \/ includes(mimeType, "csv") THEN "spreadsheet"
    ELSE IF \/ includes(mimeType, "text")
            \/ includes(mimeType, "json")
            \/ includes(mimeType, "javascript")
            \/ includes(mimeType, "typescript") THEN "code"
    ELSE IF \/ includes(mimeType, "presentation")
            \/ includes(mimeType, "powerpoint") THEN "presentation"
    ELSE IF ~startsWith(mimeType, "image") THEN "document"
    ELSE "image"

\* the if / else-if chain of lines 74-96
classify(mimeType) ==
    IF startsWith(mimeType, "video") THEN "video"
    ELSE IF startsWith(mimeType, "audio") THEN "audio"
    ELSE IF mimeType = "application/pdf" THEN "pdf"
    ELSE IF \/ includes(mimeType, "text")
            \/ includes(mimeType, "json")
            \/ includes(mimeType, "javascript")
            \/ includes(mimeType, "typescript") THEN "code"
    ELSE IF \/ includes(mimeType, "spreadsheet")
            \/ includes(mimeType, "excel")
            \/ includes(mimeType, "csv") THEN "spreadsheet"
    ELSE IF \/ includes(mimeType, "presentation")
            \/ includes(mimeType, "powerpoint") THEN "presentation"
    ELSE IF ~startsWith(mimeType, "image") THEN "document"
    ELSE "image"

\* URL.createObjectURL(file): a fresh handle for every call
createObjectURL(n) == "blob:" \o toString(n)

\* the Attachment built by reader.onload from the reader's result
ingest(base64, n) ==
    LET parts == split(base64)
        header == parts[1]
        data == IF Len(parts) >= 2 THEN parts[2] ELSE Undefined
        mimeType == mimeOf(header)
    IN  [type |-> classify(mimeType), url |-> createObjectURL(n),
         data |-> data, mimeType |-> mimeType]

-----------------------------------------------------------------------------
(* addMessage, lines 48-62 *)

NoExtra == [k \in {} |-> k]         \* addMessage called without its third argument

newMessage(role, content, extra) ==
    extra @@ [id |-> toString(now), role |-> role, content |-> content,
              timestamp |-> now]

\* setMessages(() => [newMessage]): the previous transcript is dropped
addMessage_DropPrev(prev, role, content, extra) ==
    <<newMessage(role, content, extra)>>

\* setMessages((prev) => [newMessage, ...prev]): the message is put in front
addMessage_Prepend(prev, role, content, extra) ==
    <<newMessage(role, content, extra)>> \o prev

addMessage(prev, role, content, extra) ==
    Append(prev, newMessage(role, content, extra))

-----------------------------------------------------------------------------
(* handleSend, lines 111-170 *)

Upper == "ABCDEFGHIJKLMNOPQRSTUVWXYZ"
Lower == "abcdefghijklmnopqrstuvwxyz"

lowerChar(c) ==
    LET k == indexOfFrom(Upper, c, 1)
    IN  IF Len(c) = 1 /\ k # 0 THEN CharAt(Lower, k) ELSE c

RECURSIVE toLowerCase(_)
toLowerCase(s) ==
    IF s = "" THEN ""
    ELSE lowerChar(CharAt(s, 1)) \o toLowerCase(SubSeq(s, 2, Len(s)))

\* !input && attachments.length === 0: the text is not trimmed
isBlank_NoTrim(text, atts) == text = "" /\ Len(atts) = 0

\* line 112: !input.trim() && attachments.length === 0
isBlank(text, atts) == trim(text) = "" /\ Len(atts) = 0

\* lines 354-357: the disabled attribute of the Send button
sendDisabled == status # AgentStatus.IDLE \/ isBlank(input, attachments)

\* the options without toLowerCase(): the match is case-sensitive
chatOptions_CaseSensitive(text) ==
    [useSearch |-> includes(text, "search") \/ includes(text, "latest"),
     useMaps |-> includes(text, "location") \/ includes(text, "near me"),
     thinkingBudget |-> thinkingBudget]

\* lines 148-156: the options of the chat call
chatOptions(text) ==
    [useSearch |-> \/ includes(toLowerCase(text), "search")
                   \/ includes(toLowerCase(text), "latest"),
     useMaps |-> \/ includes(toLowerCase(text), "location")
                 \/ includes(toLowerCase(text), "near me"),
     thinkingBudget |-> thinkingBudget]

\* the chain without its video branch
gatewayCall_NoVideoBranch(mode, text, atts) ==
    IF mode = "image" THEN [op |-> "generateImage", prompt |-> text]
    ELSE [op |-> "chat", prompt |-> text, attachments |-> atts,
          options |-> chatOptions(text)]

\* lines 123-157: the gateway call chosen by the active mode
gatewayCall(mode, text, atts) ==
    IF mode = "image" THEN [op |-> "generateImage", prompt |-> text]
    ELSE IF mode = "video" THEN [op |-> "generateVideo", prompt |-> text]
    ELSE [op |-> "chat", prompt |-> text, attachments |-> atts,
          options |-> chatOptions(text)]

\* setStatus(GENERATING) moved in front of the mode test
writesOnSend_AlwaysGenerating(mode) ==
    <<AgentStatus.THINKING, AgentStatus.GENERATING>>

\* lines 118, 124, 136: the status values written before the await
writesOnSend(mode) ==
    IF mode \in {"image", "video"}
    THEN <<AgentStatus.THINKING, AgentStatus.GENERATING>>
    ELSE <<AgentStatus.THINKING>>

\* the catch block without the finally block
writesOnReject_NoFinally == <<AgentStatus.ERROR>>

\* lines 166, 168: the status values written after a rejection, and after a result
writesOnReject == <<AgentStatus.ERROR, AgentStatus.IDLE>>
writesOnResolve == <<AgentStatus.IDLE>>

\* the source lines of the statements an invocation executes, in program order:
\* up to its await, after a result, and after a thrown error
stepsOnSend(mode) ==
    IF mode = "image" THEN <<114, 115, 116, 117, 118, 120, 124, 125>>
    ELSE IF mode = "video" THEN <<114, 115, 116, 117, 118, 120, 136, 137>>
    ELSE <<114, 115, 116, 117, 118, 120, 145>>

stepsOnResolve(call) ==
    IF call.op = "generateImage" THEN <<126, 168>>
    ELSE IF call.op = "generateVideo" THEN <<138, 168>>
    ELSE <<159, 168>>

stepsOnReject == <<164, 165, 166, 168>>

\* the setStatus calls among the statements, and the value each writes
statusWrittenAt ==
    [l \in {118, 124, 136, 166, 168} |->
        IF l = 118 THEN AgentStatus.THINKING
        ELSE IF l \in {124, 136} THEN AgentStatus.GENERATING
        ELSE IF l = 166 THEN AgentStatus.ERROR
        ELSE AgentStatus.IDLE]

\* setInput("") without setAttachments([])
clearComposition_KeepAttachments == input' = "" /\ attachments' = attachments

\* lines 116-117: setInput(""), setAttachments([])
clearComposition == input' = "" /\ attachments' = <<>>

\* the image caption without "+ currentInput"
replyContent_NoPrompt(call, result) ==
    IF call.op = "generateImage"
    THEN "Here's the image you requested based on: "
    ELSE IF call.op = "generateVideo" THEN "I've generated this video for you."
    ELSE result.text

\* lines 126-142, 159-161: content and extra of the reply to a result
replyContent(call, result) ==
    IF call.op = "generateImage"
    THEN "Here's the image you requested based on: " \o call.prompt
    ELSE IF call.op = "generateVideo" THEN "I've generated this video for you."
    ELSE result.text

replyExtra(call, result) ==
    IF call.op = "generateImage"
    THEN [attachments |-> <<[type |-> "image", url |-> result.url,
                             mimeType |-> "image/png"]>>]
    ELSE IF call.op = "generateVideo"
    THEN [attachments |-> <<[type |-> "video", url |-> result.url,
                             mimeType |-> "video/mp4"]>>]
    ELSE [groundingSources |-> result.sources]

\* line 165
errorContent(error) == "Encountered an error: " \o error.message

\* what the gateway may return for a call, and what it may throw
Results(call) ==
    IF call.op = "chat"
    THEN [text : ReplyTexts, sources : SourceLists]
    ELSE [url : MediaUrls]

Errors == [message : ErrorMessages]

Last(s) == s[Len(s)]

\* An invocation of handleSend past line 112: its gateway call, the promise's
\* state and settlement value, the status values it has written and the
\* statements it has executed so far, and the transcript positions of the
\* messages it appended (replyIdx 0: none yet)
NoOutcome == [k \in {} |-> k]

Pending == {i \in 1..Len(subs) : subs[i].state = "pending"}

\* the body of handleSend up to its await
handleSend ==
    IF isBlank(input, attachments)
    THEN /\ returned' = TRUE
         /\ UNCHANGED <<messages, input, status, attachments, activeMode,
                        thinkingBudget, now, urls, reading, subs>>
    ELSE /\ Len(subs) < MaxSubmits
         /\ clearComposition
         /\ messages' = addMessage(messages, "user", input,
                                   [attachments |-> attachments])
         /\ status' = Last(writesOnSend(activeMode))
         /\ subs' = Append(subs,
                [call |-> gatewayCall(activeMode, input, attachments),
                 state |-> "pending",
                 writes |-> writesOnSend(activeMode),
                 steps |-> stepsOnSend(activeMode),
                 outcome |-> NoOutcome,
                 userIdx |-> Len(messages) + 1,
                 replyIdx |-> 0])
         /\ returned' = FALSE
         /\ UNCHANGED <<activeMode, thinkingBudget, now, urls, reading>>

-----------------------------------------------------------------------------
(* Actions *)

\* line 335: onChange of the textarea
TypeInput(t) ==
    /\ input' = t
    /\ returned' = FALSE
    /\ UNCHANGED <<messages, status, attachments, activeMode, thinkingBudget,
                   now, urls, reading, subs>>

\* lines 336-341: Enter without Shift in the textarea
PressEnter == handleSend

\* lines 352-357: a click on the Send button, which the browser delivers
\* only while the button is not disabled
ClickSend == ~sendDisabled /\ handleSend

\* lines 64-68, 108: onChange of the file input, up to readAsDataURL
SelectFile(f) ==
    /\ Len(reading) + urls < MaxFiles
    /\ reading' = IF f = NoFile THEN reading ELSE Append(reading, f)
    /\ returned' = FALSE
    /\ UNCHANGED <<messages, input, status, attachments, activeMode,
                   thinkingBudget, now, urls, subs>>

\* lines 69-107: reader.onload of the i-th load in progress
ReaderOnload(i) ==
    /\ i \in 1..Len(reading)
    /\ attachments' = Append(attachments, ingest(reading[i], urls + 1))
    /\ urls' = urls + 1
    /\ reading' = SubSeq(reading, 1, i - 1) \o SubSeq(reading, i + 1, Len(reading))
    /\ returned' = FALSE
    /\ UNCHANGED <<messages, input, status, activeMode, thinkingBudget, now, subs>>

\* lines 291-295: the remove button of the i-th composed attachment
RemoveAttachment(i) ==
    /\ i \in 1..Len(attachments)
    /\ attachments' = SubSeq(attachments, 1, i - 1)
                      \o SubSeq(attachments, i + 1, Len(attachments))
    /\ returned' = FALSE
    /\ UNCHANGED <<messages, input, status, activeMode, thinkingBudget,
                   now, urls, reading, subs>>

\* line 178: setMode of the sidebar
SetMode(m) ==
    /\ activeMode' = m
    /\ returned' = FALSE
    /\ UNCHANGED <<messages, input, status, attachments, thinkingBudget,
                   now, urls, reading, subs>>

\* lines 381-383: the Reasoning Mode button
ToggleBudget ==
    /\ thinkingBudget' = IF thinkingBudget = 0 THEN 500 ELSE 0
    /\ returned' = FALSE
    /\ UNCHANGED <<messages, input, status, attachments, activeMode,
                   now, urls, reading, subs>>

\* lines 126-142, 159-161, 168: the i-th invocation resumes with a result
Resolve(i, result) ==
    /\ i \in Pending
    /\ result \in Results(subs[i].call)
    /\ messages' = addMessage(messages, "assistant",
                              replyContent(subs[i].call, result),
                              replyExtra(subs[i].call, result))
    /\ status' = Last(writesOnResolve)
    /\ subs' = [subs EXCEPT ![i].state = "resolved",
                            ![i].outcome = result,
                            ![i].writes = @ \o writesOnResolve,
                            ![i].steps = @ \o stepsOnResolve(subs[i].call),
                            ![i].replyIdx = Len(messages) + 1]
    /\ returned' = FALSE
    /\ UNCHANGED <<input, attachments, activeMode, thinkingBudget, now, urls, reading>>

\* lines 163-168: the i-th invocation resumes with a thrown error
Reject(i, error) ==
    /\ i \in Pending
    /\ messages' = addMessage(messages, "assistant", errorContent(error), NoExtra)
    /\ status' = Last(writesOnReject)
    /\ subs' = [subs EXCEPT ![i].state = "rejected",
                            ![i].outcome = error,
                            ![i].writes = @ \o writesOnReject,
                            ![i].steps = @ \o stepsOnReject,
                            ![i].replyIdx = Len(messages) + 1]
    /\ returned' = FALSE
    /\ UNCHANGED <<input, attachments, activeMode, thinkingBudget, now, urls, reading>>

\* the millisecond clock read by Date.now() advances
Tick ==
    /\ now < ClockStart + MaxTicks
    /\ now' = now + 1
    /\ returned' = FALSE
    /\ UNCHANGED <<messages, input, status, attachments, activeMode,
                   thinkingBudget, urls, reading, subs>>

Init ==
    /\ messages = <<>>
    /\ input = ""
    /\ status = AgentStatus.IDLE
    /\ attachments = <<>>
    /\ activeMode = "chat"
    /\ thinkingBudget = 500
    /\ now = ClockStart
    /\ urls = 0
    /\ reading = <<>>
    /\ subs = <<>>
    /\ returned = FALSE

Next ==
    \/ \E t \in Texts : TypeInput(t)
    \/ PressEnter
    \/ ClickSend
    \/ \E f \in DataUrls \cup {NoFile} : SelectFile(f)
    \/ \E i \in 1..Len(reading) : ReaderOnload(i)
    \/ \E i \in 1..Len(attachments) : RemoveAttachment(i)
    \/ \E m \in Modes : SetMode(m)
    \/ ToggleBudget
    \/ \E i \in Pending : \E result \in Results(subs[i].call) : Resolve(i, result)
    \/ \E i \in Pending : \E error \in Errors : Reject(i, error)
    \/ Tick

Spec == Init /\ [][Next]_vars

-----------------------------------------------------------------------------
(* The chat options as a function of the submitted text: the composition starts
   from a typed text, a mode and a budget, and is sent by the Enter key *)

OptionTexts ==
    {"latest news on AI", "Search", "THE LATEST", "find a location",
     "cafes Near Me", "nearme", "search near me", "hello"}

InitOptions ==
    /\ messages = <<>>
    /\ input \in OptionTexts
    /\ status = AgentStatus.IDLE
    /\ attachments = <<>>
    /\ activeMode \in Modes
    /\ thinkingBudget \in {0, 500}
    /\ now = ClockStart
    /\ urls = 0
    /\ reading = <<>>
    /\ subs = <<>>
    /\ returned = FALSE

NextOptions ==
    \/ PressEnter
    \/ ToggleBudget
    \/ \E i \in Pending : \E result \in Results(subs[i].call) : Resolve(i, result)
    \/ \E i \in Pending : \E error \in Errors : Reject(i, error)

SpecOptions == InitOptions /\ [][NextOptions]_vars

-----------------------------------------------------------------------------
(* The status register under a gateway that settles every call: an outstanding
   call is eventually resolved or rejected, the events of the user are under no
   obligation. The composition is by text only and the clock stands still: the
   file, budget and clock events read and write neither the status nor the
   calls. *)

Settle ==
    \/ \E i \in Pending : \E result \in Results(subs[i].call) : Resolve(i, result)
    \/ \E i \in Pending : \E error \in Errors : Reject(i, error)

NextSettling ==
    \/ \E t \in Texts : TypeInput(t)
    \/ PressEnter
    \/ ClickSend
    \/ \E m \in Modes : SetMode(m)
    \/ Settle

SpecSettling == Init /\ [][NextSettling]_vars /\ WF_vars(Settle)

-----------------------------------------------------------------------------
(* Vocabulary of the properties *)

Idle == AgentStatus.IDLE

\* handleSend ran in this step: it returned at line 112 or started a submission
SubmitCalled == returned' \/ Len(subs') = Len(subs) + 1
SubmitAccepted == Len(subs') = Len(subs) + 1

\* the invocations that resumed after their await in this step
Finishing == {i \in Pending : subs'[i].state # "pending"}

Finished == {i \in 1..Len(subs) : subs[i].state # "pending"}
Resolved == {i \in 1..Len(subs) : subs[i].state = "resolved"}
Rejected == {i \in 1..Len(subs) : subs[i].state = "rejected"}

BufferEmpty == trim(input) = "" /\ Len(attachments) = 0

IsPrefix(s, t) == Len(s) <= Len(t) /\ SubSeq(t, 1, Len(s)) = s

UserMessages == {k \in 1..Len(messages) : messages[k].role = "user"}

AttachmentUrls(k) ==
    IF "attachments" \in DOMAIN messages[k]
    THEN {messages[k].attachments[a].url : a \in 1..Len(messages[k].attachments)}
    ELSE {}

-----------------------------------------------------------------------------
(* C1 *)

\* C1: while the status is not idle, a call of handleSend (Enter key or Send
\* button) leaves the transcript unchanged and dispatches no gateway call.
C1_SubmitWhileBusyIsNoOp ==
    [][(status # Idle /\ SubmitCalled)
         => (Len(messages') = Len(messages) /\ Pending' = Pending)]_vars

(* C2 *)

\* C2: at most one gateway call is outstanding in every reachable state.
C2_AtMostOneOutstanding == Cardinality(Pending) <= 1

(* C3 *)

\* C3: in the step in which a submission finishes, by a result or by an error and
\* in any mode, the status becomes idle and idle is the last status value that
\* submission wrote.
C3_FinishedSubmissionLeavesIdle ==
    [][\A i \in Finishing :
         status' = Idle /\ Last(subs'[i].writes) = Idle]_vars

\* a chat submission failed and an image submission succeeded; the status is idle
C3_Witness ==
    /\ status = Idle
    /\ \E i \in Rejected : subs[i].call.op = "chat"
    /\ \E j \in Resolved : subs[j].call.op = "generateImage"

(* C4 *)

\* C4: a submission whose gateway call succeeded has lengthened the transcript by
\* exactly 2 when it finishes: its user message (the submitted text and
\* attachments) directly followed by its assistant message.
C4_SuccessAppendsUserThenAssistant ==
    \A i \in Resolved :
        LET u == subs[i].userIdx
            r == subs[i].replyIdx
        IN  /\ r = u + 1
            /\ messages[u].role = "user"
            /\ messages[u].content = subs[i].call.prompt
            /\ messages[r].role = "assistant"

(* C5 *)

\* C5: a submission whose gateway call failed has lengthened the transcript by
\* exactly 2 when it finishes, and the second of the two messages is an assistant
\* message whose content contains the error's message text.
C5_FailureAppendsUserThenError ==
    \A i \in Rejected :
        LET u == subs[i].userIdx
            r == subs[i].replyIdx
        IN  /\ r = u + 1
            /\ messages[u].role = "user"
            /\ messages[r].role = "assistant"
            /\ includes(messages[r].content, subs[i].outcome.message)

(* C6 *)

\* C6: a call of handleSend with an empty composition buffer (text empty or
\* whitespace only, no pending attachment) changes neither the transcript, the
\* status, the composition buffer nor the set of gateway calls.
C6_EmptySubmitChangesNothing ==
    [][(BufferEmpty /\ SubmitCalled)
         => UNCHANGED <<messages, status, input, attachments, subs>>]_vars

\* handleSend has just returned on a whitespace-only text, after an earlier
\* submission was accepted
C6_Witness ==
    returned /\ input # "" /\ BufferEmpty /\ Len(messages) > 0

(* C7 *)

\* C7: for two accepted submissions A before B, both messages of A precede both
\* messages of B, and every reply directly follows its own user message.
C7_SubmissionsAppendInOrder ==
    /\ \A i \in 1..Len(subs) : \A j \in 1..Len(subs) :
          i < j => /\ subs[i].userIdx < subs[j].userIdx
                   /\ subs[i].replyIdx # 0
                   /\ subs[i].replyIdx < subs[j].userIdx
    /\ \A i \in Finished : subs[i].replyIdx = subs[i].userIdx + 1

(* C8 *)

\* no composed attachment is in the user messages of two submissions
NoAttachmentConsumedTwice ==
    \A k \in UserMessages : \A l \in UserMessages :
        k # l => AttachmentUrls(k) \cap AttachmentUrls(l) = {}

\* C8: the step that accepts a submission puts the text and the pending
\* attachments into its user message and leaves the composition buffer empty in
\* the state in which the gateway call is outstanding; and no composed attachment
\* is ever in the user messages of two different submissions.
C8_SnapshotAndClear ==
    /\ [][SubmitAccepted =>
            /\ input' = "" /\ attachments' = <<>>
            /\ Last(messages').content = input
            /\ Last(messages').attachments = attachments
            /\ Len(subs') \in Pending']_vars
    /\ []NoAttachmentConsumedTwice

\* two submissions were accepted, the first one with a composed attachment
C8_Witness ==
    /\ Len(subs) = 2
    /\ AttachmentUrls(subs[1].userIdx) # {}
    /\ attachments = <<>>

(* C9 *)

\* C9: after every step the previous transcript is a prefix of the new one: no
\* message is removed, reordered or changed.
C9_TranscriptAppendOnly == [][IsPrefix(messages, messages')]_vars

\* a transcript of three messages with a load finished, the mode and the budget
\* changed
C9_Witness ==
    /\ Len(messages) >= 3
    /\ activeMode # "chat"
    /\ thinkingBudget = 0
    /\ urls > 0

(* C10 *)

\* C10: no two messages of the transcript have the same id.
C10_MessageIdsUnique ==
    \A k \in 1..Len(messages) : \A l \in 1..Len(messages) :
        k # l => messages[k].id # messages[l].id

-----------------------------------------------------------------------------
(* C11 *)

MediaReplies == {i \in Resolved : subs[i].call.op \in {"generateImage", "generateVideo"}}

MediaType(call) == IF call.op = "generateImage" THEN "image" ELSE "video"

\* the reply of a media submission has exactly one attachment: the returned
\* handle, typed after the operation
SoleMediaAttachment(i) ==
    LET m == messages[subs[i].replyIdx]
    IN  /\ m.role = "assistant"
        /\ "attachments" \in DOMAIN m
        /\ Len(m.attachments) = 1
        /\ m.attachments[1].url = subs[i].outcome.url
        /\ m.attachments[1].type = MediaType(subs[i].call)

\* C11 as stated: the reply to a successful image or video submission contains
\* the original prompt and has the returned handle as its only attachment.
C11_MediaCaptionContainsPrompt ==
    \A i \in MediaReplies :
        /\ includes(messages[subs[i].replyIdx].content, subs[i].call.prompt)
        /\ SoleMediaAttachment(i)

\* C11 amended: the reply to a successful image submission contains the original
\* prompt; the reply to a successful video submission is the fixed caption
\* "I've generated this video for you."; either reply has the returned handle as
\* its only attachment, of type image or video respectively.
C11_MediaReply ==
    \A i \in MediaReplies :
        /\ SoleMediaAttachment(i)
        /\ subs[i].call.op = "generateImage"
             => includes(messages[subs[i].replyIdx].content, subs[i].call.prompt)
        /\ subs[i].call.op = "generateVideo"
             => messages[subs[i].replyIdx].content = "I've generated this video for you."

\* an image and a video submission with the prompt "Latest" both succeeded
C11_Witness ==
    /\ \E i \in MediaReplies :
          subs[i].call.op = "generateImage" /\ subs[i].call.prompt = "Latest"
    /\ \E j \in MediaReplies :
          subs[j].call.op = "generateVideo" /\ subs[j].call.prompt = "Latest"

(* C12 *)

Seq2Set(s) == {s[k] : k \in 1..Len(s)}

\* C12: an attachment whose mimeType is text/csv has type spreadsheet.
C12_CsvIsSpreadsheet ==
    \A a \in Seq2Set(attachments) : a.mimeType = "text/csv" => a.type = "spreadsheet"

(* C13 *)

\* the rule list of the classification policy, in order; a rule applies when the
\* MIME type starts with one of its prefixes, equals one of its exact values or
\* contains one of its parts
RuleList ==
    << [type |-> "video", prefix |-> {"video/"}, exact |-> {}, part |-> {}],
       [type |-> "audio", prefix |-> {"audio/"}, exact |-> {}, part |-> {}],
       [type |-> "pdf", prefix |-> {}, exact |-> {"application/pdf"}, part |-> {}],
       [type |-> "code", prefix |-> {}, exact |-> {},
        part |-> {"text", "json", "javascript", "typescript"}],
       [type |-> "spreadsheet", prefix |-> {}, exact |-> {},
        part |-> {"spreadsheet", "excel", "csv"}],
       [type |-> "presentation", prefix |-> {}, exact |-> {},
        part |-> {"presentation", "powerpoint"}] >>

Occurs(m, p) == \E k \in 1..Len(m) : k + Len(p) - 1 <= Len(m) /\ SubSeq(m, k, k + Len(p) - 1) = p

Applies(rule, m) ==
    \/ \E p \in rule.prefix : Len(p) <= Len(m) /\ SubSeq(m, 1, Len(p)) = p
    \/ m \in rule.exact
    \/ \E p \in rule.part : Occurs(m, p)

\* the type of the first rule that applies; without one, document for a
\* non-image MIME type and image otherwise
FirstMatch(m) ==
    LET hits == {k \in 1..Len(RuleList) : Applies(RuleList[k], m)}
    IN  IF hits # {} THEN RuleList[CHOOSE k \in hits : \A j \in hits : k <= j].type
        ELSE IF Len(m) >= 6 /\ SubSeq(m, 1, 6) = "image/" THEN "image"
        ELSE "document"

MimeSamples ==
    {"video/mp4", "video/text", "audio/mpeg", "audio/x-json", "application/pdf",
     "application/pdf+json", "text/plain", "text/csv", "application/json",
     "application/javascript", "application/typescript",
     "application/vnd.openxmlformats-officedocument.spreadsheetml.sheet",
     "application/vnd.ms-excel", "application/csv",
     "application/vnd.openxmlformats-officedocument.presentationml.presentation",
     "application/vnd.ms-powerpoint", "application/octet-stream", "application/zip",
     "image/png", "image/jpeg", "image/svg+xml", "font/woff"}

HeaderSamples == {"data:" \o m \o ";base64" : m \in MimeSamples} \cup {"data:", "data:;base64"}

AllAttachments ==
    Seq2Set(attachments)
    \cup UNION {IF "attachments" \in DOMAIN messages[k]
                THEN Seq2Set(messages[k].attachments) ELSE {} : k \in 1..Len(messages)}

\* classify and the rule list agree on the samples, with and without a header
ClassifyAgreesOnSamples ==
    /\ \A m \in MimeSamples : classify(m) = FirstMatch(m)
    /\ \A h \in HeaderSamples :
          classify(mimeOf(h)) = FirstMatch(IF h \in {"data:", "data:;base64"}
                                           THEN "image/png"
                                           ELSE SubSeq(h, 6, Len(h) - 7))

\* C13: the classification of a MIME type is the type of the first rule of the
\* rule list that applies, a missing MIME header counts as image/png, and every
\* attachment of the composition buffer and of the transcript has the type the
\* rule list gives for its mimeType.
C13_ClassifiedByRuleList ==
    /\ ClassifyAgreesOnSamples
    /\ \A a \in AllAttachments : a.type = FirstMatch(a.mimeType)

\* the transcript holds an ingested text/csv attachment and a generated video,
\* the composition buffer none
C13_Witness ==
    /\ \E k \in UserMessages : \E a \in Seq2Set(messages[k].attachments) :
          a.mimeType = "text/csv" /\ a.type = "code"
    /\ \E k \in 1..Len(messages) :
          /\ messages[k].role = "assistant"
          /\ "attachments" \in DOMAIN messages[k]
          /\ messages[k].attachments[1].mimeType = "video/mp4"

(* C14 *)

SmallLetters == "abcdefghijklmnopqrstuvwxyz"
CapitalLetters == "ABCDEFGHIJKLMNOPQRSTUVWXYZ"

\* the same character, or the small and the capital form of one letter
SameLetter(a, b) ==
    \/ a = b
    \/ \E n \in 1..26 : {a, b} = {SubSeq(SmallLetters, n, n), SubSeq(CapitalLetters, n, n)}

\* pat occurs in text when the case of letters is ignored
ContainsIgnoringCase(text, pat) ==
    \E k \in 1..Len(text) :
        /\ k + Len(pat) - 1 <= Len(text)
        /\ \A j \in 1..Len(pat) :
              SameLetter(SubSeq(text, k + j - 1, k + j - 1), SubSeq(pat, j, j))

\* C14: a submission accepted in a mode other than image and video dispatches a
\* chat call whose options have useSearch true exactly when the submitted text
\* contains "search" or "latest" ignoring case, useMaps true exactly when it
\* contains "location" or "near me" ignoring case, and thinkingBudget equal to
\* the budget configured at that moment.
C14_ChatOptions ==
    [][(SubmitAccepted /\ activeMode \notin {"image", "video"}) =>
          LET c == Last(subs').call
          IN  /\ c.op = "chat"
              /\ c.options.useSearch = (\/ ContainsIgnoringCase(input, "search")
                                        \/ ContainsIgnoringCase(input, "latest"))
              /\ c.options.useMaps = (\/ ContainsIgnoringCase(input, "location")
                                      \/ ContainsIgnoringCase(input, "near me"))
              /\ c.options.thinkingBudget = thinkingBudget]_vars

\* "latest news on AI" was sent in chat mode: useSearch is true, useMaps false;
\* the budget was changed after the call was dispatched
C14_Witness ==
    \E i \in 1..Len(subs) :
        /\ subs[i].call.op = "chat"
        /\ subs[i].call.prompt = "latest news on AI"
        /\ subs[i].call.options.useSearch
        /\ ~subs[i].call.options.useMaps
        /\ subs[i].call.options.thinkingBudget # thinkingBudget

(* C15 *)

IsMedia(i) == subs[i].call.op \in {"generateImage", "generateVideo"}

\* the status values of the setStatus calls among the statements st, in order
RECURSIVE WritesOf(_)
WritesOf(st) ==
    IF st = <<>> THEN <<>>
    ELSE (IF Head(st) \in DOMAIN statusWrittenAt
          THEN <<statusWrittenAt[Head(st)]>> ELSE <<>>) \o WritesOf(Tail(st))

WriteSequences(i) ==
    LET w == subs[i].writes
        st == subs[i].steps
    IN  /\ w = WritesOf(st)
        /\ (i \in Resolved /\ IsMedia(i))
              => w = <<"thinking", "generating", "idle">>
        /\ (i \in Resolved /\ ~IsMedia(i)) => w = <<"thinking", "idle">>
        /\ ~IsMedia(i) => \A k \in 1..Len(w) : w[k] # "generating"
        /\ \A k \in 1..Len(w) :
              w[k] = "error" => i \in Rejected /\ k < Len(w) /\ w[k + 1] = "idle"
        /\ \A k \in 1..Len(st) :
              st[k] = 166 => /\ i \in Rejected
                             /\ k > 1 /\ st[k - 1] = 165
                             /\ k < Len(st) /\ st[k + 1] = 168

AwaitLines == {125, 137, 145}

\* the reply to a result has the shape of the call that was dispatched
ReplyShape(i) ==
    LET m == messages[subs[i].replyIdx]
    IN  IF IsMedia(i)
        THEN /\ SoleMediaAttachment(i)
             /\ "groundingSources" \notin DOMAIN m
        ELSE /\ m.content = subs[i].outcome.text
             /\ "groundingSources" \in DOMAIN m
             /\ m.groundingSources = subs[i].outcome.sources
             /\ "attachments" \notin DOMAIN m

\* C16: an accepted submission dispatches exactly one gateway call, chosen by the
\* mode active at that moment: generateImage(text) for image, generateVideo(text)
\* for video, chat(text, snapshotted attachments, options) for chat and live; no
\* later step changes the call of a submission, and the reply to a result has
\* the shape of that call whatever the mode is by then.
C16_OneCallByModeAtSubmit ==
    /\ [][SubmitAccepted =>
            LET c == Last(subs').call
                st == Last(subs').steps
            IN  /\ Cardinality({k \in 1..Len(st) : st[k] \in AwaitLines}) = 1
                /\ activeMode = "image"
                     => c = [op |-> "generateImage", prompt |-> input]
                /\ activeMode = "video"
                     => c = [op |-> "generateVideo", prompt |-> input]
                /\ activeMode \in {"chat", "live"}
                     => /\ c.op = "chat" /\ c.prompt = input
                        /\ c.attachments = attachments
                        /\ DOMAIN c = {"op", "prompt", "attachments", "options"}]_vars
    /\ [][\A i \in 1..Len(subs) :
            /\ subs'[i].call = subs[i].call
            /\ Cardinality({k \in 1..Len(subs'[i].steps) :
                              subs'[i].steps[k] \in AwaitLines}) = 1]_vars
    /\ [](\A i \in Resolved : ReplyShape(i))

\* an image call resolved after the mode was changed to live, and a video call
\* is outstanding
C16_Witness ==
    /\ activeMode = "live"
    /\ \E i \in Resolved : subs[i].call.op = "generateImage"
    /\ \E j \in Pending : subs[j].call.op = "generateVideo"

(* C17 *)

\* the position of statement l in the statements st, 0 when it is not in them
PositionOf(st, l) ==
    LET at == {k \in 1..Len(st) : st[k] = l}
    IN  IF at = {} THEN 0 ELSE CHOOSE k \in at : \A j \in at : k <= j

ReplyLines == {126, 138, 159, 165}

UserMessageFirst(i) ==
    LET u == subs[i].userIdx
        st == subs[i].steps
    IN  /\ u \in 1..Len(messages)
        /\ messages[u].role = "user"
        /\ messages[u].content = subs[i].call.prompt
        /\ subs[i].replyIdx # 0 => u < subs[i].replyIdx
        /\ PositionOf(st, 120) # 0
        /\ \A k \in 1..Len(st) :
              st[k] \in AwaitLines \cup ReplyLines => PositionOf(st, 120) < k

\* C17: the user message of a submission is appended before its gateway call is
\* dispatched and before its reply or error message: while the call is
\* outstanding and ever after, also when the call fails, the transcript holds
\* the user message at the position where it was appended.
C17_UserMessageBeforeCall ==
    /\ [](\A i \in 1..Len(subs) : UserMessageFirst(i))
    /\ [][\A i \in 1..Len(subs) :
            /\ subs[i].userIdx <= Len(messages')
            /\ messages'[subs[i].userIdx] = messages[subs[i].userIdx]]_vars

\* one submission has failed and another one is outstanding
C17_Witness ==
    /\ Rejected # {}
    /\ Pending # {}
    /\ \A i \in 1..Len(subs) : messages[subs[i].userIdx].role = "user"

(* C18 *)

Busy == status \in {"thinking", "generating", "error"}

Quiet == status = Idle /\ Pending = {}

C19_StatusReflectsOutstanding ==
    /\ Pending # {} => status \in {"thinking", "generating"}
    /\ status = Idle => Pending = {}

====
